---- MODULE Spec2Model ----
(***************************************************************************)
(* Conversational DSPy API: the in-memory conversation store               *)
(* (app/storage.py, app/models.py), the reasoning wrapper                  *)
(* (app/dspy_config.py) and the HTTP handlers (app/main.py).               *)
(*                                                                         *)
(* Strings that the program builds or inspects (message texts, answers,    *)
(* the context) are sequences of tokens, so that concatenation, joining    *)
(* and emptiness are computed.  Conversation ids are TLA+ strings; the     *)
(* empty id is "".  An Optional value is a record [some, val].             *)
(*                                                                         *)
(* The handlers are coroutines on one event loop: a handler runs without   *)
(* interruption up to its await.  chat has one await (the reasoning call), *)
(* so it is two steps, ChatStart and ChatResume; the other handlers are    *)
(* one step each.                                                          *)
(***************************************************************************)
EXTENDS Integers, Sequences, FiniteSets, TLC

\* ---------------------------------------------------------------- bounds
MaxConvs == 2        \* uuid4 draws (conversations ever created)
MaxChats == 2        \* chat requests that reach the reasoning call
MaxInflight == 2     \* chat requests suspended on the reasoning call at once
MaxCalls == 3        \* direct add_message calls on the store (StorageSpec)

\* -------------------------------------------------------------- inputs
\* The values uuid4 draws, in the order it draws them: pairwise distinct.
UUIDs == <<"u1", "u2", "u3", "u4", "u5", "u6">>
IssuedIds(n) == {UUIDs[k] : k \in 1..n}

None == [some |-> FALSE, val |-> ""]
Some(v) == [some |-> TRUE, val |-> v]

\* Ids a client may send: the empty string and every id the service can issue
\* (issued, deleted or not issued yet).
ClientIds == {""} \cup IssuedIds(MaxConvs)
\* Message texts: one line, and two lines (the token "\n" is the newline).
Texts == {<<"hello">>, <<"again", "\n", "please">>}
Roles == {"user", "assistant"}
\* Outcomes of the reasoning call: an answer (possibly empty) or an exception
\* with its str() (possibly empty).
Answers == {<<"answer">>}
Errors == {<<"timeout">>, <<>>}
Outcomes == {[ok |-> TRUE, text |-> a] : a \in Answers}
              \cup {[ok |-> FALSE, text |-> e] : e \in Errors}
\* ChatRequest: conversation_id: str | None = None, message: str
ChatRequest == [conversation_id : {None} \cup {Some(i) : i \in ClientIds},
                message : Texts]

VARIABLES
  env_key,        \* os.getenv("OPENAI_API_KEY") is set
  phase,          \* "starting" | "serving" | "failed": module initialization
  conversations,  \* storage._conversations: key -> reference to a Conversation
  objects,        \* the Conversation objects alive, by reference (their id)
  uuid_count,     \* number of uuid4 draws so far
  clock,          \* datetime.utcnow, as a logical clock
  pending,        \* chat coroutines suspended on the reasoning call
  chats,          \* chat requests that reached the reasoning call
  last,           \* outcome of the last completed call or request
  calls,          \* history: (role, content) passed to add_message, per stored id
  deleted,        \* history: ids whose delete_conversation returned True
  issued          \* history: ids ever stored or returned

vars == <<env_key, phase, conversations, objects, uuid_count, clock, pending,
          chats, last, calls, deleted, issued>>

\* ------------------------------------------------------------ truthiness
\* Python truth value of a str | None: None and "" are false.
StrTruthy(o) == o.some /\ o.val /= ""
\* Python truth value of an Optional[Conversation]: a pydantic model defines
\* neither __bool__ nor __len__, so every Conversation is true.
ObjTruthy(o) == o.some

\* ------------------------------------------------------------- models.py
Message_fixed_role(role, content, now) ==
  [role |-> "user", content |-> content, timestamp |-> now]

Message(role, content, now) ==
  [role |-> role, content |-> content, timestamp |-> now]

\* uuid.uuid4(): a value no earlier draw returned.
uuid4(drawn) == UUIDs[drawn + 1]

\* Conversation(): id from the default factory, messages a fresh empty list
\* (pydantic copies a mutable default per instance).
Conversation(drawn) == [id |-> uuid4(drawn), messages |-> <<>>]

Conversation_add_message_prepend(conv, role, content, now) ==
  LET message == Message(role, content, now)
  IN [conv |-> [conv EXCEPT !.messages = <<message>> \o @], ret |-> message]

Conversation_add_message(conv, role, content, now) ==
  LET message == Message(role, content, now)
  IN [conv |-> [conv EXCEPT !.messages = Append(@, message)], ret |-> message]

\* ------------------------------------------------------------ storage.py
ConversationStorage_init == [k \in {} |-> ""]

ConversationStorage_get_conversation(convs, conversation_id) ==
  IF conversation_id \in DOMAIN convs THEN Some(convs[conversation_id]) ELSE None

\* Returns the new mapping, the new heap and the reference of the new object.
ConversationStorage_create_conversation_by_count(convs, objs, drawn) ==
  LET conversation == [id |-> UUIDs[Cardinality(DOMAIN convs) + 1], messages |-> <<>>]
      ref == conversation.id
  IN [conversations |-> [k \in DOMAIN convs \cup {ref} |->
                           IF k = ref THEN ref ELSE convs[k]],
      objects |-> [r \in DOMAIN objs \cup {ref} |->
                     IF r = ref THEN conversation ELSE objs[r]],
      ret |-> ref]

ConversationStorage_create_conversation_shared_list(convs, objs, drawn) ==
  LET shared == IF DOMAIN objs = {} THEN <<>>
                ELSE objs[CHOOSE r \in DOMAIN objs : TRUE].messages
      conversation == [id |-> uuid4(drawn), messages |-> shared]
      ref == conversation.id
  IN [conversations |-> [k \in DOMAIN convs \cup {ref} |->
                           IF k = ref THEN ref ELSE convs[k]],
      objects |-> [r \in DOMAIN objs \cup {ref} |->
                     IF r = ref THEN conversation ELSE objs[r]],
      ret |-> ref]

ConversationStorage_create_conversation_unregistered(convs, objs, drawn) ==
  LET conversation == Conversation(drawn)
      ref == conversation.id
  IN [conversations |-> convs,
      objects |-> [r \in DOMAIN objs \cup {ref} |->
                     IF r = ref THEN conversation ELSE objs[r]],
      ret |-> ref]

ConversationStorage_create_conversation(convs, objs, drawn) ==
  LET conversation == Conversation(drawn)
      ref == conversation.id
  IN [conversations |-> [k \in DOMAIN convs \cup {conversation.id} |->
                           IF k = conversation.id THEN ref ELSE convs[k]],
      objects |-> [r \in DOMAIN objs \cup {ref} |->
                     IF r = ref THEN conversation ELSE objs[r]],
      ret |-> ref]

\* Returns the new heap and Some(message) or None.
ConversationStorage_add_message_upsert(convs, objs, conversation_id, role, content, now) ==
  LET conversation == ConversationStorage_get_conversation(convs, conversation_id)
  IN IF ObjTruthy(conversation)
     THEN LET r == Conversation_add_message(objs[conversation.val], role, content, now)
          IN [objects |-> [objs EXCEPT ![conversation.val] = r.conv],
              ret |-> Some(r.ret)]
     ELSE LET m == Message(role, content, now)
          IN [objects |-> [x \in DOMAIN objs \cup {conversation_id} |->
                             IF x = conversation_id
                             THEN [id |-> conversation_id, messages |-> <<m>>]
                             ELSE objs[x]],
              ret |-> Some(m)]

ConversationStorage_add_message(convs, objs, conversation_id, role, content, now) ==
  LET conversation == ConversationStorage_get_conversation(convs, conversation_id)
  IN IF ObjTruthy(conversation)
     THEN LET r == Conversation_add_message(objs[conversation.val], role, content, now)
          IN [objects |-> [objs EXCEPT ![conversation.val] = r.conv],
              ret |-> Some(r.ret)]
     ELSE [objects |-> objs, ret |-> None]

ConversationStorage_delete_conversation_keep(convs, conversation_id) ==
  [conversations |-> convs, ret |-> conversation_id \in DOMAIN convs]

ConversationStorage_delete_conversation_clear(convs, conversation_id) ==
  IF conversation_id \in DOMAIN convs
  THEN [conversations |-> [k \in {} |-> ""], ret |-> TRUE]
  ELSE [conversations |-> convs, ret |-> FALSE]

ConversationStorage_delete_conversation(convs, conversation_id) ==
  IF conversation_id \in DOMAIN convs
  THEN [conversations |-> [k \in DOMAIN convs \ {conversation_id} |-> convs[k]],
        ret |-> TRUE]
  ELSE [conversations |-> convs, ret |-> FALSE]

\* -------------------------------------------------------- dspy_config.py
RECURSIVE JoinLines(_)
\* "\n".join(parts)
JoinLines(parts) ==
  IF parts = <<>> THEN <<>>
  ELSE IF Len(parts) = 1 THEN parts[1]
  ELSE parts[1] \o <<"\n">> \o JoinLines(Tail(parts))

create_context_from_messages_recent(messages) ==
  LET recent == IF Len(messages) <= 2 THEN messages
                ELSE SubSeq(messages, Len(messages) - 1, Len(messages))
  IN JoinLines([k \in 1..Len(recent) |->
                  <<recent[k].role, ": ">> \o recent[k].content])

\* f"{msg.role}: {msg.content}" for every message, joined by newlines.
create_context_from_messages(messages) ==
  JoinLines([k \in 1..Len(messages) |->
               <<messages[k].role, ": ">> \o messages[k].content])

ApologyPrefix == <<"I apologize, but I encountered an error: ">>

DSPyManager_init_no_key_check(key, lm_ok) ==
  IF ~lm_ok THEN "Exception" ELSE "ok"

\* DSPyManager(): ValueError without the API key, the language model's own
\* exception when it cannot be set up, otherwise a manager.
DSPyManager_init(key, lm_ok) ==
  IF ~key THEN "ValueError"
  ELSE IF ~lm_ok THEN "Exception" ELSE "ok"

\* What process_message returns once the awaited program call has ended:
\* result.answer, or the apology built in the except branch.
process_message_return(outcome) ==
  IF outcome.ok THEN outcome.text ELSE ApologyPrefix \o outcome.text

\* --------------------------------------------------------------- results
NoResult ==
  [op |-> "none", request |-> [conversation_id |-> None, message |-> <<>>],
   id |-> "", role |-> "", content |-> <<>>, status |-> 0, ret |-> None,
   success |-> FALSE, response |-> <<>>, history |-> <<>>, before |-> <<>>,
   outcome |-> [ok |-> TRUE, text |-> <<>>], stored |-> FALSE, asked |-> FALSE]

LogCall(log, convs, conversation_id, role, content) ==
  IF conversation_id \in DOMAIN convs
  THEN [log EXCEPT ![conversation_id] = Append(@, <<role, content>>)]
  ELSE log

\* Reference counting: a Conversation lives while the store or a suspended
\* chat coroutine refers to it.
Collect(objs, convs, tasks) ==
  LET live == {convs[k] : k \in DOMAIN convs}
                \cup {tasks[j].conversation : j \in 1..Len(tasks)}
  IN [r \in DOMAIN objs \cap live |-> objs[r]]

RemoveAt(seq, i) == SubSeq(seq, 1, i - 1) \o SubSeq(seq, i + 1, Len(seq))

\* ------------------------------------------------------------------ Init
Init ==
  /\ env_key \in BOOLEAN
  /\ phase = "starting"
  /\ conversations = ConversationStorage_init
  /\ objects = [r \in {} |-> Conversation(0)]
  /\ uuid_count = 0
  /\ clock = 0
  /\ pending = <<>>
  /\ chats = 0
  /\ last = NoResult
  /\ calls = [i \in IssuedIds(MaxConvs) |-> <<>>]
  /\ deleted = {}
  /\ issued = {}

\* --------------------------------------------------------------- main.py
\* Module initialization: ConversationStorage(), then DSPyManager(), which
\* raises without the API key or when the language model cannot be set up;
\* the exception is re-raised and the application is never served.
ModuleInit(lm_ok) ==
  /\ phase = "starting"
  /\ phase' = IF DSPyManager_init(env_key, lm_ok) = "ok" THEN "serving"
               ELSE "failed"
  /\ last' = [NoResult EXCEPT !.op = "init"]
  /\ UNCHANGED <<env_key, conversations, objects, uuid_count, clock, pending,
                 chats, calls, deleted, issued>>

\* chat, from the request to the await inside process_message: resolve or
\* create the conversation, append the user message, build the context.
ChatTurn(request, ref, convs, objs, drawn, before) ==
  LET a == ConversationStorage_add_message(convs, objs, ref, "user",
                                           request.message, clock)
      context == create_context_from_messages(a.objects[ref].messages)
  IN /\ chats < MaxChats
     /\ Len(pending) < MaxInflight
     /\ conversations' = convs
     /\ objects' = a.objects
     /\ uuid_count' = drawn
     /\ clock' = clock + 1
     /\ calls' = LogCall(calls, convs, ref, "user", request.message)
     /\ issued' = issued \cup DOMAIN convs
     /\ chats' = chats + 1
     /\ pending' = Append(pending,
                          [request |-> request, conversation |-> ref,
                           context |-> context, question |-> request.message,
                           before |-> before])
     /\ last' = [NoResult EXCEPT !.op = "chat_await", !.request = request,
                                 !.id = ref, !.before = before, !.asked = TRUE,
                                 !.ret = a.ret]
     /\ UNCHANGED <<env_key, phase, deleted>>

ChatStart(request) ==
  /\ phase = "serving"
  /\ IF StrTruthy(request.conversation_id)
     THEN LET conversation == ConversationStorage_get_conversation(
                                conversations, request.conversation_id.val)
          IN IF ~ObjTruthy(conversation)
             THEN /\ last' = [NoResult EXCEPT !.op = "chat", !.request = request,
                                              !.status = 404]
                  /\ UNCHANGED <<env_key, phase, conversations, objects,
                                 uuid_count, clock, pending, chats, calls,
                                 deleted, issued>>
             ELSE ChatTurn(request, conversation.val, conversations, objects,
                           uuid_count, objects[conversation.val].messages)
     ELSE /\ uuid_count < MaxConvs
          /\ LET c == ConversationStorage_create_conversation(
                        conversations, objects, uuid_count)
             IN ChatTurn(request, c.ret, c.conversations, c.objects,
                         uuid_count + 1, <<>>)

\* chat, from the end of the reasoning call to the response: the answer or
\* the apology, the assistant message, the history of the held conversation.
ChatResume(i, outcome) ==
  /\ phase = "serving"
  /\ i \in 1..Len(pending)
  /\ LET t == pending[i]
         response == process_message_return(outcome)
         a == ConversationStorage_add_message(conversations, objects,
                                              t.conversation, "assistant",
                                              response, clock)
     IN /\ objects' = Collect(a.objects, conversations, RemoveAt(pending, i))
        /\ clock' = IF a.ret.some THEN clock + 1 ELSE clock
        /\ calls' = LogCall(calls, conversations, t.conversation, "assistant",
                            response)
        /\ issued' = issued \cup {objects[t.conversation].id}
        /\ pending' = RemoveAt(pending, i)
        /\ last' = [NoResult EXCEPT
                      !.op = "chat", !.request = t.request, !.status = 200,
                      !.id = objects[t.conversation].id,
                      !.response = response,
                      !.history = a.objects[t.conversation].messages,
                      !.before = t.before, !.outcome = outcome,
                      !.stored = t.conversation \in DOMAIN conversations]
  /\ UNCHANGED <<env_key, phase, conversations, uuid_count, chats, deleted>>

\* GET /conversation/{conversation_id}
GetConversation(conversation_id) ==
  /\ phase = "serving"
  /\ LET conversation == ConversationStorage_get_conversation(
                           conversations, conversation_id)
     IN IF ~ObjTruthy(conversation)
        THEN /\ last' = [NoResult EXCEPT !.op = "get", !.id = conversation_id,
                                         !.status = 404]
             /\ UNCHANGED issued
        ELSE /\ last' = [NoResult EXCEPT
                           !.op = "get", !.id = objects[conversation.val].id,
                           !.status = 200, !.ret = conversation,
                           !.history = objects[conversation.val].messages]
             /\ issued' = issued \cup {objects[conversation.val].id}
  /\ UNCHANGED <<env_key, phase, conversations, objects, uuid_count, clock,
                 pending, chats, calls, deleted>>

\* DELETE /conversation/{conversation_id}
DeleteConversation(conversation_id) ==
  /\ phase = "serving"
  /\ LET d == ConversationStorage_delete_conversation(conversations,
                                                      conversation_id)
         success == d.ret
     IN /\ conversations' = d.conversations
        /\ objects' = Collect(objects, d.conversations, pending)
        /\ deleted' = IF success THEN deleted \cup {conversation_id} ELSE deleted
        /\ calls' = IF success THEN [calls EXCEPT ![conversation_id] = <<>>]
                     ELSE calls
        /\ last' = [NoResult EXCEPT !.op = "delete", !.id = conversation_id,
                                    !.success = success,
                                    !.status = IF success THEN 200 ELSE 404]
  /\ UNCHANGED <<env_key, phase, uuid_count, clock, pending, chats, issued>>

Next ==
  \/ \E lm_ok \in BOOLEAN : ModuleInit(lm_ok)
  \/ \E request \in ChatRequest : ChatStart(request)
  \/ \E i \in 1..MaxInflight, outcome \in Outcomes : ChatResume(i, outcome)
  \/ \E conversation_id \in ClientIds : GetConversation(conversation_id)
  \/ \E conversation_id \in ClientIds : DeleteConversation(conversation_id)

Spec == Init /\ [][Next]_vars

\* ------------------------------------------- the store, called directly
\* ConversationStorage's four methods, called in any order on one instance.
CallCreate ==
  /\ uuid_count < MaxConvs
  /\ LET c == ConversationStorage_create_conversation(conversations, objects,
                                                      uuid_count)
     IN /\ conversations' = c.conversations
        /\ objects' = c.objects
        /\ uuid_count' = uuid_count + 1
        /\ issued' = issued \cup DOMAIN c.conversations \cup {c.objects[c.ret].id}
        /\ last' = [NoResult EXCEPT !.op = "create_conversation",
                                    !.id = c.objects[c.ret].id,
                                    !.ret = Some(c.ret)]
  /\ UNCHANGED <<env_key, phase, clock, pending, chats, calls, deleted>>

CallAdd(conversation_id, role, content) ==
  /\ clock < MaxCalls
  /\ LET a == ConversationStorage_add_message(conversations, objects,
                                              conversation_id, role, content,
                                              clock)
     IN /\ objects' = a.objects
        /\ clock' = IF a.ret.some THEN clock + 1 ELSE clock
        /\ calls' = LogCall(calls, conversations, conversation_id, role, content)
        /\ last' = [NoResult EXCEPT !.op = "add_message", !.id = conversation_id,
                                    !.role = role, !.content = content,
                                    !.ret = a.ret]
  /\ UNCHANGED <<env_key, phase, conversations, uuid_count, pending, chats,
                 deleted, issued>>

CallGet(conversation_id) ==
  /\ LET conversation == ConversationStorage_get_conversation(conversations,
                                                              conversation_id)
     IN last' = [NoResult EXCEPT
                   !.op = "get_conversation", !.id = conversation_id,
                   !.ret = conversation,
                   !.history = IF conversation.some
                               THEN objects[conversation.val].messages
                               ELSE <<>>]
  /\ UNCHANGED <<env_key, phase, conversations, objects, uuid_count, clock,
                 pending, chats, calls, deleted, issued>>

CallDelete(conversation_id) ==
  /\ LET d == ConversationStorage_delete_conversation(conversations,
                                                      conversation_id)
     IN /\ conversations' = d.conversations
        /\ objects' = Collect(objects, d.conversations, pending)
        /\ deleted' = IF d.ret THEN deleted \cup {conversation_id} ELSE deleted
        /\ calls' = IF d.ret THEN [calls EXCEPT ![conversation_id] = <<>>]
                    ELSE calls
        /\ last' = [NoResult EXCEPT !.op = "delete_conversation",
                                    !.id = conversation_id, !.success = d.ret]
  /\ UNCHANGED <<env_key, phase, uuid_count, clock, pending, chats, issued>>

StorageNext ==
  \/ CallCreate
  \/ \E conversation_id \in ClientIds, role \in Roles, content \in Texts :
       CallAdd(conversation_id, role, content)
  \/ \E conversation_id \in ClientIds : CallGet(conversation_id)
  \/ \E conversation_id \in ClientIds : CallDelete(conversation_id)

StorageSpec == Init /\ [][StorageNext]_vars

\* ------------------------------------------ requests served one at a time
\* Every request completes before the next one starts.
Idle == pending = <<>>

SeqNext ==
  \/ \E lm_ok \in BOOLEAN : ModuleInit(lm_ok)
  \/ Idle /\ \E request \in ChatRequest : ChatStart(request)
  \/ \E i \in 1..MaxInflight, outcome \in Outcomes : ChatResume(i, outcome)
  \/ Idle /\ \E conversation_id \in ClientIds : GetConversation(conversation_id)
  \/ Idle /\ \E conversation_id \in ClientIds : DeleteConversation(conversation_id)

SeqSpec == Init /\ [][SeqNext]_vars

\* ============================================================== claims
IsChatSuccess == last.op = "chat" /\ last.status = 200

RolesOf(h) == [k \in 1..Len(h) |-> h[k].role]

C2_UnknownIdNoMutation ==
  [][\A request \in ChatRequest :
       ( /\ request.conversation_id.some
         /\ request.conversation_id.val \notin DOMAIN conversations
         /\ ChatStart(request) )
       => ( /\ last'.op = "chat" /\ last'.status = 404
            /\ ~last'.asked
            /\ UNCHANGED <<conversations, objects, pending>> )]_vars

\* C3: when the reasoning call raises, chat answers with status success and a
\* non-empty apology, and appends an assistant message carrying that apology
\* to the conversation.
C3_FailureAppendsApology ==
  [][\A i \in 1..MaxInflight, e \in Errors :
       ChatResume(i, [ok |-> FALSE, text |-> e])
       => LET ref == pending[i].conversation
          IN /\ last'.status = 200
             /\ last'.response = ApologyPrefix \o e
             /\ last'.response /= <<>>
             /\ last'.history =
                  Append(objects[ref].messages,
                         Message("assistant", last'.response, clock))]_vars

\* C4: get_conversation directly after create_conversation returned an id
\* yields the conversation with that id and an empty message list, and
\* get_conversation of an id whose delete succeeded yields None ever after.
C4_GetAfterCreateAndDelete ==
  /\ last.op = "create_conversation" =>
       LET g == ConversationStorage_get_conversation(conversations, last.id)
       IN /\ g.some
          /\ objects[g.val].id = last.id
          /\ objects[g.val].messages = <<>>
  /\ \A id \in deleted :
       ~ConversationStorage_get_conversation(conversations, id).some

\* A create after messages were appended and after a delete.
C4_Witness ==
  /\ last.op = "create_conversation"
  /\ deleted /= {}
  /\ clock > 0

\* C5: the messages of a stored conversation are, in order, the (role,
\* content) pairs of the add_message calls made on it, one message per call.
C5_MessagesAreTheCalls ==
  \A id \in DOMAIN conversations :
    LET h == objects[conversations[id]].messages
    IN [k \in 1..Len(h) |-> <<h[k].role, h[k].content>>] = calls[id]

C5_Witness ==
  \E id \in DOMAIN conversations :
    /\ Len(calls[id]) >= 3
    /\ calls[id][1] /= calls[id][2]
    /\ calls[id][2] /= calls[id][3]

\* C6: a chat request without conversation_id adds exactly one entry to the
\* store, under an id never stored or returned before (deleted ids included),
\* and that id is the one the response returns.
C6_NewConversationFreshId ==
  [][/\ \A request \in ChatRequest :
          (~request.conversation_id.some /\ ChatStart(request))
          => LET new == DOMAIN conversations' \ DOMAIN conversations
             IN /\ Cardinality(new) = 1
                /\ DOMAIN conversations \subseteq DOMAIN conversations'
                /\ new \cap (issued \cup deleted) = {}
                /\ pending'[Len(pending')].conversation \in new
                /\ \A id \in new : objects'[conversations'[id]].id = id
     /\ \A i \in 1..MaxInflight, outcome \in Outcomes :
          (ChatResume(i, outcome) /\ ~pending[i].request.conversation_id.some)
          => /\ last'.status = 200
             /\ last'.id = pending[i].conversation]_vars

\* A request without conversation_id answered after an earlier conversation
\* was deleted.
C6_Witness ==
  /\ IsChatSuccess
  /\ ~last.request.conversation_id.some
  /\ deleted /= {}
  /\ last.id \notin deleted

\* C7: every success response of chat ends its history with the assistant
\* message carrying the returned response, preceded by the request's user
\* message.
C7_HistoryEndsWithAnswer ==
  IsChatSuccess =>
    LET h == last.history
    IN /\ Len(h) >= 2
       /\ h[Len(h)].role = "assistant"
       /\ h[Len(h)].content = last.response
       /\ \E k \in 1..(Len(h) - 1) :
            h[k].role = "user" /\ h[k].content = last.request.message

\* C8: DELETE removes the conversation and succeeds when the id is stored,
\* answers 404 (False) when it is not, leaves every other conversation and
\* its messages as they were, and fails on an id deleted before.
C8_DeleteFrame ==
  [][\A id \in ClientIds :
       DeleteConversation(id)
       => /\ last'.success = (id \in DOMAIN conversations)
          /\ last'.status = IF id \in DOMAIN conversations THEN 200 ELSE 404
          /\ DOMAIN conversations' = DOMAIN conversations \ {id}
          /\ \A k \in DOMAIN conversations \ {id} :
               /\ conversations'[k] = conversations[k]
               /\ objects'[conversations'[k]] = objects[conversations[k]]
          /\ (id \in deleted => ~last'.success)]_vars

\* A second delete of the same id, answered 404 while another conversation
\* with messages is stored.
C8_Witness ==
  /\ last.op = "delete" /\ last.status = 404
  /\ last.id \in deleted
  /\ \E k \in DOMAIN conversations : objects[conversations[k]].messages /= <<>>

\* C9: get_conversation and add_message on an id that is not stored return
\* None, and add_message then creates no conversation and changes no list.
C9_AbsentIsNone ==
  [][/\ \A id \in ClientIds, role \in Roles, content \in Texts :
          (id \notin DOMAIN conversations /\ CallAdd(id, role, content))
          => /\ last'.ret = None
             /\ UNCHANGED <<conversations, objects>>
     /\ \A id \in ClientIds :
          (id \notin DOMAIN conversations /\ CallGet(id))
          => /\ last'.ret = None
             /\ UNCHANGED <<conversations, objects>>]_vars

\* add_message on a deleted id, while another conversation is stored.
C9_Witness ==
  /\ last.op = "add_message"
  /\ last.ret = None
  /\ last.id \in deleted
  /\ conversations /= ConversationStorage_init

\* C10: chat creates a conversation only for a request without
\* conversation_id; a request with a conversation_id string that is not
\* stored, the empty string included, answers 404 and creates nothing.
C10_CreateOnlyWithoutId ==
  [][\A request \in ChatRequest :
       ChatStart(request)
       => /\ (uuid_count' /= uuid_count) => ~request.conversation_id.some
          /\ ( /\ request.conversation_id.some
               /\ request.conversation_id.val \notin DOMAIN conversations )
             => last'.status = 404]_vars

\* C11: in a run started without the credential, initialization fails and
\* the service never serves: no request is handled, no conversation is
\* created, nothing is stored.
C11_NoKeyNeverServes ==
  ~env_key =>
    /\ phase /= "serving"
    /\ last.op \in {"none", "init"}
    /\ uuid_count = 0
    /\ conversations = ConversationStorage_init
    /\ pending = <<>>
    /\ chats = 0

\* Initialization has run without the credential and has failed.
C11_Witness == ~env_key /\ phase = "failed" /\ last.op = "init"

\* C12: once delete_conversation(id) has returned True, no success response
\* carries that conversation (a chat suspended on the reasoning call when the
\* delete ran included), and nothing is appended to it.
C12_NoReferenceSurvivesDelete ==
  [][/\ (last'.status = 200 /\ last'.op \in {"chat", "get"})
          => last'.id \notin deleted'
     /\ \A id \in deleted \cap DOMAIN objects \cap DOMAIN objects' :
          objects'[id].messages = objects[id].messages]_vars

StoredMessages(id) == objects[conversations[id]].messages

CountRole(h, role) == Cardinality({k \in 1..Len(h) : h[k].role = role})

InFlightOn(id) ==
  Cardinality({j \in 1..Len(pending) : pending[j].conversation = conversations[id]})

\* C13 (as stated): once all chat requests have completed, every stored
\* transcript alternates user, assistant, starting with user.
C13_WholeTurns ==
  pending = <<>> =>
    \A id \in DOMAIN conversations :
      \A k \in 1..Len(StoredMessages(id)) :
        StoredMessages(id)[k].role = IF k % 2 = 1 THEN "user" ELSE "assistant"

\* C13 (amended): under any interleaving every stored transcript starts with
\* a user message, has in each of its prefixes at least as many user as
\* assistant messages, and has exactly one more user than assistant message
\* per chat request still suspended on it; so once all requests have
\* completed every user message has its assistant message after it, though
\* not necessarily next to it.
C13_TurnsBalanced ==
  \A id \in DOMAIN conversations :
    LET h == StoredMessages(id)
    IN /\ \A n \in 1..Len(h) :
            CountRole(SubSeq(h, 1, n), "user")
              >= CountRole(SubSeq(h, 1, n), "assistant")
       /\ CountRole(h, "user") - CountRole(h, "assistant") = InFlightOn(id)

\* Two chat requests were in flight on one conversation and both completed.
C13_Witness ==
  /\ pending = <<>>
  /\ \E id \in DOMAIN conversations :
       RolesOf(StoredMessages(id)) = <<"user", "user", "assistant", "assistant">>

\* C14: a chat that passed the lookup (or created its conversation) appends
\* its user message before anything else can run: the append returns the
\* message, never None, and lands at the end of the list as it was at the
\* lookup, in a conversation that is in the store at that moment.
C14_UserAppendLands ==
  [][(last'.op = "chat_await" /\ Len(pending') = Len(pending) + 1)
      => LET t == pending'[Len(pending')]
             user_message == Message("user", t.request.message, clock)
         IN /\ last'.ret = Some(user_message)
            /\ t.conversation \in DOMAIN conversations'
            /\ conversations'[t.conversation] = t.conversation
            /\ objects'[t.conversation].messages = Append(t.before, user_message)]_vars

\* A chat on an existing conversation passed the lookup while another chat
\* was suspended on the reasoning call.
C14_Witness ==
  /\ last.op = "chat_await"
  /\ StrTruthy(last.request.conversation_id)
  /\ Len(pending) >= 2

\* C15: while a conversation stays in the store, every step leaves its
\* message list as it was or with exactly one message added at its end: the
\* previous list is a prefix of the current one.
C15_AppendOnly ==
  [][\A id \in DOMAIN conversations \cap DOMAIN conversations' :
       LET old == objects[conversations[id]].messages
           new == objects'[conversations'[id]].messages
       IN \/ new = old
          \/ /\ Len(new) = Len(old) + 1
             /\ SubSeq(new, 1, Len(old)) = old]_vars

\* Another conversation was deleted while a stored one holds a whole turn.
C15_Witness ==
  /\ last.op = "delete" /\ last.success
  /\ \E id \in DOMAIN conversations : Len(StoredMessages(id)) >= 2

RECURSIVE SplitLines(_)
\* s.split("\n"): the lines of a string.
SplitLines(s) ==
  IF s = <<>> THEN << <<>> >>
  ELSE LET rest == SplitLines(Tail(s))
       IN IF Head(s) = "\n" THEN << <<>> >> \o rest
          ELSE << <<Head(s)>> \o rest[1] >> \o Tail(rest)

RECURSIVE ConcatAll(_)
ConcatAll(seqs) ==
  IF seqs = <<>> THEN <<>> ELSE Head(seqs) \o ConcatAll(Tail(seqs))

\* "<role>: <content>"
Entry(m) == <<m.role, ": ">> \o m.content

SingleLine(h) == \A k \in 1..Len(h) : \A j \in 1..Len(h[k].content) :
                   h[k].content[j] /= "\n"

IsChatAwaitStep == last'.op = "chat_await" /\ Len(pending') = Len(pending) + 1

\* C16 (as stated): the context handed to the reasoning call has one line per
\* message of the conversation as it stands after the user message was
\* appended, line k being "<role>: <content>" of message k, so the last line
\* is the current user message and there are as many lines as messages.
C16_ContextLinePerMessage ==
  [][IsChatAwaitStep
      => LET t == pending'[Len(pending')]
             h == objects'[t.conversation].messages
             lines == SplitLines(t.context)
         IN /\ Len(lines) = Len(h)
            /\ \A k \in 1..Len(h) : lines[k] = Entry(h[k])
            /\ lines[Len(lines)] = <<"user", ": ">> \o t.request.message]_vars

\* C16 (amended): the context is made of one "<role>: <content>" entry per
\* message of the conversation as it stands after the user message was
\* appended, all of them, in transcript order, joined by newline: its lines
\* are the lines of those entries in order, ending with those of the current
\* user message.  The entries are the lines of the context, and as many as
\* the messages, when no content contains a newline.
C16_ContextEntryPerMessage ==
  [][IsChatAwaitStep
      => LET t == pending'[Len(pending')]
             h == objects'[t.conversation].messages
             lines == SplitLines(t.context)
         IN /\ lines = ConcatAll([k \in 1..Len(h) |-> SplitLines(Entry(h[k]))])
            /\ h /= <<>>
            /\ Entry(h[Len(h)]) = <<"user", ": ">> \o t.request.message
            /\ t.question = t.request.message
            /\ SingleLine(h) => /\ Len(lines) = Len(h)
                                /\ \A k \in 1..Len(h) : lines[k] = Entry(h[k])]_vars

\* A context built over a whole earlier turn plus the current user message,
\* one of them with two lines.
C16_Witness ==
  \E j \in 1..Len(pending) :
    /\ Len(pending[j].before) >= 2
    /\ Len(SplitLines(pending[j].context)) > Len(pending[j].before) + 1

\* C17: a step changes the message list of at most the conversation it is
\* about (the id of the add_message call or of the chat turn) and of no other
\* stored conversation, and a conversation that enters the store starts with
\* an empty list: in a chat step it holds this request's user message only,
\* whatever was appended to other conversations before.
C17_ConversationsIsolated ==
  [][/\ \A k \in DOMAIN conversations \cap DOMAIN conversations' :
          objects'[conversations'[k]].messages /= objects[conversations[k]].messages
          => /\ last'.op \in {"chat_await", "chat", "add_message"}
             /\ last'.id = k
     /\ \A k \in DOMAIN conversations' \ DOMAIN conversations :
          LET new == objects'[conversations'[k]].messages
          IN IF last'.op = "chat_await"
             THEN new = <<Message("user", last'.request.message, clock)>>
             ELSE new = <<>>]_vars

\* A conversation was created by a chat request while another stored
\* conversation already had messages.
C17_Witness ==
  /\ last.op = "chat_await"
  /\ last.before = <<>>
  /\ last.id \in DOMAIN conversations
  /\ \E k \in DOMAIN conversations \ {last.id} : StoredMessages(k) /= <<>>

====
